---- MODULE Spec2Model ----
(***************************************************************************)
(* TrendSpark validation engine: the pipeline orchestrator                 *)
(* (services/pipeline_service.py), the generative-analysis client          *)
(* (services/ai_service.py), the competitor-search client                  *)
(* (services/search_service.py) and the report schema (models.py).         *)
(*                                                                         *)
(* Strings the code inspects character by character (titles, keywords,     *)
(* snippets, the search query) are sequences of one-character strings.     *)
(* Scores are kept in tenths: 10 is 1.0, 75 is 7.5, 100 is 10.0.           *)
(* JSON values are tagged records; each tag has its own payload field.     *)
(***************************************************************************)
EXTENDS Integers, Sequences, FiniteSets, TLC

VARIABLES
    SEARCH_API_KEY,    \* search_service.SEARCH_API_KEY, read once at import
    SEARCH_CX,         \* search_service.SEARCH_CX, read once at import
    current_model,     \* ai_service._current_model: 0 is None, else index in MODEL_CANDIDATES
    probe_log,         \* probes issued by the get_model call of the last step, in order
    pc,                \* position of the request being served
    title,             \* idea.title of the request
    idea_title,        \* pipeline local idea_title
    swot_data,         \* pipeline local swot_data
    market_data,       \* pipeline local market_data
    competitor_data,   \* pipeline local competitor_data / result of get_competitor_search
    final_data,        \* pipeline local final_data
    outcome,           \* what run_validation_pipeline / get_competitor_search handed its caller
    stage_log,         \* stages invoked by this invocation, in order
    search_arg,        \* keyword list get_competitor_search was called with
    requests_sent,     \* network requests issued by get_competitor_search in this call
    search_response,   \* what the search provider answered (if asked)
    gen_log            \* per generative stage of this invocation: the model get_model
                       \* returned (0: it raised) and whether every call made raised

vars == <<SEARCH_API_KEY, SEARCH_CX, current_model, probe_log, pc, title, idea_title,
          swot_data, market_data, competitor_data, final_data, outcome, stage_log,
          search_arg, requests_sent, search_response, gen_log>>

(***************************************************************************)
(* Strings                                                                 *)
(***************************************************************************)
IsSpace(c) == c = " "

RECURSIVE LStrip(_)
LStrip(s) == IF s = <<>> THEN <<>>
             ELSE IF IsSpace(Head(s)) THEN LStrip(Tail(s)) ELSE s

RECURSIVE RStrip(_)
RStrip(s) == IF s = <<>> THEN <<>>
             ELSE IF IsSpace(s[Len(s)]) THEN RStrip(SubSeq(s, 1, Len(s) - 1)) ELSE s

\* str.strip()
Strip(s) == RStrip(LStrip(s))

\* str.split(): the maximal runs of non-space characters
RECURSIVE SplitFrom(_, _)
SplitFrom(s, word) ==
    IF s = <<>> THEN (IF word = <<>> THEN <<>> ELSE <<word>>)
    ELSE IF IsSpace(Head(s))
         THEN (IF word = <<>> THEN <<>> ELSE <<word>>) \o SplitFrom(Tail(s), <<>>)
         ELSE SplitFrom(Tail(s), Append(word, Head(s)))

Split(s) == SplitFrom(s, <<>>)

\* sep.join(parts)
RECURSIVE Join(_, _)
Join(sep, parts) ==
    IF parts = <<>> THEN <<>>
    ELSE IF Len(parts) = 1 THEN parts[1]
    ELSE parts[1] \o sep \o Join(sep, Tail(parts))

\* the first n elements of a sequence: s[:n]
Take(s, n) == SubSeq(s, 1, IF Len(s) < n THEN Len(s) ELSE n)

SeqsUpTo(S, n) == UNION {[1..k -> S] : k \in 0..n}

(***************************************************************************)
(* JSON values as the decoders hand them to the code                       *)
(***************************************************************************)
Absent == [t |-> "absent"]                \* the key is not in the mapping
Null == [t |-> "null"]                    \* JSON null / Python None
Num(n) == [t |-> "num", n |-> n]          \* a number, in tenths
NaN == [t |-> "nan"]                      \* json.loads accepts NaN
Bool(b) == [t |-> "bool", b |-> b]
Text(s) == [t |-> "str", s |-> s]
List(l) == [t |-> "list", l |-> l]

IsStr(v) == v.t = "str"
IsStrList(v) == v.t = "list" /\ \A i \in 1..Len(v.l) : IsStr(v.l[i])

\* dict.get(key, default) on a mapping whose missing keys read Absent
Get(d, key, default) == IF d[key] = Absent THEN default ELSE d[key]

(***************************************************************************)
(* ai_service.safe_json_parse                                              *)
(* A response text is [fence, chatter, body]: whether it is wrapped in a   *)
(* ``` code fence, whether prose surrounds the payload, and the payload:   *)
(* nothing at all, prose without braces, a JSON array of scalars, a        *)
(* brace-delimited span that is no valid JSON, or a JSON object.           *)
(***************************************************************************)
NoneValue == [t |-> "None"]

EmptyText == [fence |-> FALSE, chatter |-> FALSE, body |-> [k |-> "empty"]]

ObjectText(fence, chatter, d) ==
    [fence |-> fence, chatter |-> chatter, body |-> [k |-> "obj", d |-> d]]

\* re.sub of the fence markers: the fence goes, the rest stays
StripFence(text) == [text EXCEPT !.fence = FALSE]

\* re.search(r'\{.*\}', cleaned, DOTALL): the first-to-last brace span, when there is one
HasBraces(text) == text.body.k \in {"obj", "badobj"}

ExtractBraces(text) == IF HasBraces(text) THEN [text EXCEPT !.chatter = FALSE] ELSE text

\* json.loads: the decoded value, or JSONDecodeError
JsonLoads(text) ==
    IF text.fence \/ text.chatter THEN [ok |-> FALSE]
    ELSE CASE text.body.k = "obj" -> [ok |-> TRUE, isdict |-> TRUE, value |-> text.body.d]
           [] text.body.k = "array" -> [ok |-> TRUE, isdict |-> FALSE]
           [] OTHER -> [ok |-> FALSE]

safe_json_parse(text) ==
    IF text = EmptyText THEN NoneValue
    ELSE LET cleaned == ExtractBraces(StripFence(text))
             parsed == JsonLoads(cleaned)
         IN  IF parsed.ok /\ parsed.isdict THEN parsed.value ELSE NoneValue

(***************************************************************************)
(* models.py: the typed records and what their constructors accept         *)
(***************************************************************************)
\* a List[str] field with default_factory=list: the coerced list, or no list
StrListField(v) ==
    IF v = Absent THEN [ok |-> TRUE, value |-> <<>>]
    ELSE IF IsStrList(v) THEN [ok |-> TRUE, value |-> [i \in 1..Len(v.l) |-> v.l[i].s]]
    ELSE [ok |-> FALSE]

\* SWOT(**data)
SWOT(data) ==
    LET s == StrListField(data.strengths)
        w == StrListField(data.weaknesses)
        o == StrListField(data.opportunities)
        h == StrListField(data.threats)
    IN  IF s.ok /\ w.ok /\ o.ok /\ h.ok
        THEN [ok |-> TRUE,
              value |-> [strengths |-> s.value, weaknesses |-> w.value,
                         opportunities |-> o.value, threats |-> h.value]]
        ELSE [ok |-> FALSE, exc |-> "ValidationError"]

\* an audience profile is the sequence of the text fragments it is formatted from
AudienceProfileDefault == <<"Not enough data to generate profile">>

\* MarketAnalysis(**data); keywords are character sequences
MarketAnalysis(data) ==
    LET a == data.audience_profile
        k == data.potential_keywords
        kwOk == k = Absent \/ k.t = "kwlist"
    IN  IF (a = Absent \/ IsStr(a)) /\ kwOk
        THEN [ok |-> TRUE,
              value |-> [audience_profile |-> IF a = Absent THEN AudienceProfileDefault ELSE <<a.s>>,
                         potential_keywords |-> IF k = Absent THEN <<>> ELSE k.l]]
        ELSE [ok |-> FALSE, exc |-> "ValidationError"]

\* Competitor(name=..., url=..., snippet=...): name is a required str,
\* url and snippet are Optional[str]
Competitor(name, url, snippet) ==
    IF IsStr(name) /\ (IsStr(url) \/ url = Null) /\ (IsStr(snippet) \/ snippet = Null)
    THEN [ok |-> TRUE, value |-> [name |-> name, url |-> url, snippet |-> snippet]]
    ELSE [ok |-> FALSE, exc |-> "ValidationError"]

ScoreMin == 10     \* ge=1.0
ScoreMax == 100    \* le=10.0

\* overall_score declared a plain float, without ge/le
ScoreAccepted_Unbounded(f) == f.t = "num"

\* the ge/le constraint of ValidationReport.overall_score on a float
ScoreAccepted(f) == f.t = "num" /\ f.n >= ScoreMin /\ f.n <= ScoreMax

\* ValidationReport(...): score is already a float, the collaborators are typed
\* records; report_id, a fresh uuid4 string, is always accepted and is left out
ValidationReport(idea_name, score, summary, swot, market, competitors, steps) ==
    LET st == StrListField(steps)
    IN  IF ScoreAccepted(score) /\ IsStr(summary) /\ st.ok
        THEN [ok |-> TRUE,
              value |-> [idea_name |-> idea_name, overall_score |-> score.n,
                         executive_summary |-> summary.s, swot_analysis |-> swot,
                         market_analysis |-> market, competitor_analysis |-> competitors,
                         recommended_next_steps |-> st.value]]
        ELSE [ok |-> FALSE, exc |-> "ValidationError"]

(***************************************************************************)
(* ai_service.get_model                                                    *)
(***************************************************************************)
MODEL_CANDIDATES ==
    <<"gemini-2.5-flash", "gemini-2.5-pro", "gemini-2.0-flash", "gemini-2.0-flash-001",
      "gemini-1.5-flash", "gemini-1.5-flash-001", "gemini-1.5-pro", "gemini-flash-latest">>

\* What a candidate's probe ("Say hello") does: answers non-empty text, answers
\* empty text, or raises (rate limit, not found, anything else: every except
\* branch goes on to the next candidate).
ProbeOutcomes == {"text", "empty", "raise"}

\* The answers of the candidates to one round of probes: the candidates before
\* `first` all fail the same way, candidate `first` answers, the later ones all
\* answer `after`; first = Len + 1 is the round in which no candidate answers.
ProbeVector(first, before, after) ==
    [i \in 1..Len(MODEL_CANDIDATES) |->
        IF i < first THEN before ELSE IF i = first THEN "text" ELSE after]

ProbeVectors ==
    {ProbeVector(first, before, after) :
        first \in {1, 2, Len(MODEL_CANDIDATES), Len(MODEL_CANDIDATES) + 1},
        before \in {"empty", "raise"}, after \in ProbeOutcomes}

NoProbes == [i \in 1..Len(MODEL_CANDIDATES) |-> "raise"]

\* the for loop over MODEL_CANDIDATES from candidate i on
RECURSIVE ProbeFrom(_, _)
ProbeFrom(i, probes) ==
    IF i > Len(MODEL_CANDIDATES) THEN [found |-> 0, log |-> <<>>]
    ELSE IF probes[i] = "text"
         THEN [found |-> i, log |-> <<[cand |-> i, ok |-> TRUE]>>]
         ELSE LET rest == ProbeFrom(i + 1, probes)
              IN  [found |-> rest.found, log |-> <<[cand |-> i, ok |-> FALSE]>> \o rest.log]

\* get_model without the `if _current_model is not None` shortcut
get_model_NoCacheCheck(cur, probes) ==
    LET r == ProbeFrom(1, probes)
    IN  [raised |-> r.found = 0, model |-> r.found, cache |-> r.found, log |-> r.log]

\* get_model(): the model returned (or RuntimeError), the new cache, the probes issued
get_model(cur, probes) ==
    IF cur # 0 THEN [raised |-> FALSE, model |-> cur, cache |-> cur, log |-> <<>>]
    ELSE LET r == ProbeFrom(1, probes)
         IN  [raised |-> r.found = 0, model |-> r.found, cache |-> r.found, log |-> r.log]

(***************************************************************************)
(* ai_service.get_swot_analysis and get_market_analysis                    *)
(* gen is what model.generate_content does when it is called: it raises,   *)
(* or answers a response text.                                             *)
(***************************************************************************)
GenRaise == [k |-> "raise"]
GenText(text) == [k |-> "text", text |-> text]

\* str(e) of the exceptions the generative path can meet
NoModelMsg == "No usable Gemini model could be initialized. Check your API key, quota, and region restrictions."
GenErrorMsg == "generate_content failed"
ValidationMsg == "validation error"
NotDictMsg == "AI response was not parsed into a dictionary"

ErrMsg(exc) == CASE exc = "RuntimeError" -> NoModelMsg
                 [] exc = "GenerationError" -> GenErrorMsg
                 [] exc = "ValidationError" -> ValidationMsg
                 [] OTHER -> NotDictMsg

\* `if data and isinstance(data, dict)`: a decoded mapping with at least one key
Truthy(data) == data # NoneValue /\ \E key \in DOMAIN data : data[key] # Absent

SwotMalformed ==
    [strengths |-> <<"Could not generate SWOT analysis">>,
     weaknesses |-> <<"AI response was malformed">>,
     opportunities |-> <<>>, threats |-> <<>>]

SwotUnavailable(msg) ==
    [strengths |-> <<"Service temporarily unavailable">>,
     weaknesses |-> <<msg>>,
     opportunities |-> <<>>, threats |-> <<>>]

\* the try block of get_swot_analysis: the value returned, or the exception raised in it
SwotTry(m, gen) ==
    IF m.raised THEN [exc |-> "RuntimeError"]
    ELSE IF gen.k = "raise" THEN [exc |-> "GenerationError"]
    ELSE LET data == safe_json_parse(gen.text)
         IN  IF Truthy(data)
             THEN LET c == SWOT(data)
                  IN  IF c.ok THEN [exc |-> "none", value |-> c.value] ELSE [exc |-> c.exc]
             ELSE [exc |-> "none", value |-> SwotMalformed]

\* get_swot_analysis without its except clause
get_swot_analysis_NoExcept(m, gen) == SwotTry(m, gen)

\* get_swot_analysis: try, then `except Exception`
get_swot_analysis(m, gen) ==
    LET r == SwotTry(m, gen)
    IN  IF r.exc = "none" THEN r ELSE [exc |-> "none", value |-> SwotUnavailable(ErrMsg(r.exc))]

MarketMalformed ==
    [audience_profile |-> <<"Could not generate profile due to formatting issue">>,
     potential_keywords |-> <<>>]

MarketUnavailable(msg) ==
    [audience_profile |-> <<"Service error: ", msg>>, potential_keywords |-> <<>>]

\* the try block of get_market_analysis
MarketTry(m, gen) ==
    IF m.raised THEN [exc |-> "RuntimeError"]
    ELSE IF gen.k = "raise" THEN [exc |-> "GenerationError"]
    ELSE LET data == safe_json_parse(gen.text)
         IN  IF Truthy(data)
             THEN LET c == MarketAnalysis(data)
                  IN  IF c.ok THEN [exc |-> "none", value |-> c.value] ELSE [exc |-> c.exc]
             ELSE [exc |-> "none", value |-> MarketMalformed]

\* get_market_analysis without its except clause
get_market_analysis_NoExcept(m, gen) == MarketTry(m, gen)

\* get_market_analysis: try, then `except Exception`
get_market_analysis(m, gen) ==
    LET r == MarketTry(m, gen)
    IN  IF r.exc = "none" THEN r ELSE [exc |-> "none", value |-> MarketUnavailable(ErrMsg(r.exc))]

\* whether every call made to the generative service by one stage raised:
\* the probes get_model issued, and the generation call if it came to it
AllGenCallsRaised(m, probes, gen) ==
    /\ \A i \in 1..Len(m.log) : probes[m.log[i].cand] = "raise"
    /\ (m.raised \/ gen.k = "raise")

GenEntry(m, probes, gen) ==
    [model |-> m.model, all_raised |-> AllGenCallsRaised(m, probes, gen)]

(***************************************************************************)
(* search_service.get_competitor_search                                    *)
(***************************************************************************)
TopKeywords == 5          \* keywords[:5]
MaxResultsDefault == 6    \* max_results: int = 6

\* os.getenv: None when the variable is unset, else its text
CredUnset == "<None>"
CredFalsy(c) == c = CredUnset \/ c = ""

NoDescription == <<"N", "o", " ", "d", "e", "s", "c", "r", "i", "p", "t", "i", "o", "n", " ", "a", "v", "a", "i", "l", "a", "b", "l", "e">>
OrSeparator == <<" ", "O", "R", " ">>
Quoted(k) == <<"\"">> \o k \o <<"\"">>

\* the query built from every top keyword, blank or not
RECURSIVE NonBlank_KeepAll(_)
NonBlank_KeepAll(s) == IF s = <<>> THEN <<>> ELSE <<Head(s)>> \o NonBlank_KeepAll(Tail(s))

\* the keywords of s that `if k.strip()` keeps
RECURSIVE NonBlank(_)
NonBlank(s) ==
    IF s = <<>> THEN <<>>
    ELSE (IF Strip(Head(s)) # <<>> THEN <<Head(s)>> ELSE <<>>) \o NonBlank(Tail(s))

\* " OR ".join(f'"{k}"' for k in top_keywords if k.strip())
Query(keywords) ==
    LET kept == NonBlank(Take(keywords, TopKeywords))
    IN  Join(OrSeparator, [i \in 1..Len(kept) |-> Quoted(kept[i])])

\* " ".join(snippet.split())
NormalizeSnippet(s) == Join(<<" ">>, Split(s))

\* one pass of the for loop's body: the Competitor built from an item, or the exception
ItemToCompetitor(item) ==
    IF item.t # "dict" THEN [ok |-> FALSE, exc |-> "AttributeError"]
    ELSE LET snippet == Get(item, "snippet", Text(NoDescription))
         IN  IF ~IsStr(snippet) THEN [ok |-> FALSE, exc |-> "AttributeError"]
             ELSE Competitor(Get(item, "title", Text("Untitled Result")),
                             Get(item, "link", Text("#")),
                             Text(NormalizeSnippet(snippet.s)))

\* the for loop over items[:max_results]
RECURSIVE BuildCompetitors(_)
BuildCompetitors(items) ==
    IF items = <<>> THEN [exc |-> "none", value |-> <<>>]
    ELSE LET c == ItemToCompetitor(Head(items))
         IN  IF ~c.ok THEN [exc |-> c.exc]
             ELSE LET rest == BuildCompetitors(Tail(items))
                  IN  IF rest.exc # "none" THEN rest
                      ELSE [exc |-> "none", value |-> <<c.value>> \o rest.value]

\* the try block: requests.get, raise_for_status, response.json(), the loop
SearchTry(resp, max_results) ==
    CASE resp.k = "transport" -> [exc |-> "ConnectionError"]
      [] resp.k = "http" -> [exc |-> "HTTPError"]
      [] resp.k = "undecodable" -> [exc |-> "JSONDecodeError"]
      [] OTHER ->
           IF resp.data.t # "dict" THEN [exc |-> "AttributeError"]
           ELSE LET items == Get(resp.data, "items", List(<<>>))
                IN  IF items.t # "list" THEN [exc |-> "TypeError"]
                    ELSE BuildCompetitors(Take(items.l, max_results))

\* the except clauses, in order
IsHTTPError(exc) == exc = "HTTPError"
IsRequestException(exc) == exc \in {"HTTPError", "ConnectionError", "Timeout"}
IsValueError(exc) == exc \in {"ValueError", "JSONDecodeError", "ValidationError"}
IsException(exc) == exc # "none"

\* the except clauses without the last one, `except Exception`
SearchExcept_NoCatchAll(r) ==
    IF r.exc = "none" THEN r
    ELSE IF IsHTTPError(r.exc) \/ IsRequestException(r.exc) \/ IsValueError(r.exc)
         THEN [exc |-> "none", value |-> <<>>]
         ELSE r

SearchExcept(r) ==
    CASE r.exc = "none" -> r
      [] IsHTTPError(r.exc) -> [exc |-> "none", value |-> <<>>]
      [] IsRequestException(r.exc) -> [exc |-> "none", value |-> <<>>]
      [] IsValueError(r.exc) -> [exc |-> "none", value |-> <<>>]
      [] IsException(r.exc) -> [exc |-> "none", value |-> <<>>]

\* get_competitor_search(keywords, max_results): what the caller gets (a list, or
\* an exception), and how many network requests were issued
get_competitor_search(keywords, max_results, key, cx, resp) ==
    IF keywords = <<>> \/ CredFalsy(key) \/ CredFalsy(cx)
    THEN [exc |-> "none", value |-> <<>>, sent |-> 0]
    ELSE IF Strip(Query(keywords)) = <<>>
    THEN [exc |-> "none", value |-> <<>>, sent |-> 0]
    ELSE LET r == SearchExcept(SearchTry(resp, max_results))
         IN  IF r.exc = "none" THEN [exc |-> "none", value |-> r.value, sent |-> 1]
             ELSE [exc |-> r.exc, sent |-> 1]

(***************************************************************************)
(* pipeline_service.run_validation_pipeline                                *)
(***************************************************************************)
UntitledIdea == <<"U", "n", "t", "i", "t", "l", "e", "d", " ", "I", "d", "e", "a">>

\* idea.title.strip() if idea.title else "Untitled Idea"
NormalizeTitle(t) == IF t # <<>> THEN Strip(t) ELSE UntitledIdea

FinalFallback ==
    [executive_summary |-> Text("Unable to generate final summary due to an error."),
     overall_score |-> Num(10),
     recommended_next_steps |->
         List(<<Text("Verify the AI service configuration"),
                Text("Check prompt formatting and model availability"),
                Text("Test with a simpler idea first")>>)]

\* the try block of the final summary: the mapping decoded, or the exception
SummaryTry(m, gen) ==
    IF m.raised THEN [exc |-> "RuntimeError"]
    ELSE IF gen.k = "raise" THEN [exc |-> "GenerationError"]
    ELSE LET data == safe_json_parse(gen.text)
         IN  IF data = NoneValue THEN [exc |-> "ValueError"]
             ELSE [exc |-> "none", value |-> data]

\* the final summary with get_model() called before the try block
FinalSummary_ModelOutsideTry(m, gen) ==
    LET r == SummaryTry(m, gen)
    IN  IF r.exc \in {"none", "RuntimeError"} THEN r
        ELSE [exc |-> "none", value |-> FinalFallback]

\* try, then `except Exception`: final_data
FinalSummary(m, gen) ==
    LET r == SummaryTry(m, gen)
    IN  IF r.exc = "none" THEN r ELSE [exc |-> "none", value |-> FinalFallback]

\* float(s) of the strings a score can be
FloatOfStr(s) == CASE s = "7.5" -> [ok |-> TRUE, value |-> Num(75)]
                   [] s = "11" -> [ok |-> TRUE, value |-> Num(110)]
                   [] OTHER -> [ok |-> FALSE, exc |-> "ValueError"]

\* float(x)
FloatOf(v) == CASE v.t = "num" -> [ok |-> TRUE, value |-> v]
                [] v.t = "nan" -> [ok |-> TRUE, value |-> v]
                [] v.t = "bool" -> [ok |-> TRUE, value |-> Num(IF v.b THEN 10 ELSE 0)]
                [] v.t = "str" -> FloatOfStr(v.s)
                [] OTHER -> [ok |-> FALSE, exc |-> "TypeError"]

\* Step 5: the report built from final_data, or the exception that leaves the function
BuildReportFrom(name, swot, market, competitors, final) ==
    LET score == FloatOf(Get(final, "overall_score", Num(10)))
    IN  IF ~score.ok THEN [exc |-> score.exc]
        ELSE LET rep == ValidationReport(
                            name, score.value,
                            Get(final, "executive_summary", Text("No summary could be generated.")),
                            swot, market, competitors,
                            Get(final, "recommended_next_steps", List(<<>>)))
             IN  IF rep.ok THEN [exc |-> "none", value |-> rep.value] ELSE [exc |-> rep.exc]

(***************************************************************************)
(* The environment: requests, and what the two external services answer    *)
(***************************************************************************)
MaxKeywords == 6    \* longest keyword list handed to get_competitor_search on its own
MaxItems == 2       \* most result items in one search response

Blank == <<" ">>
Keyword == <<"k">>

Titles == {<<>>, <<" ">>, <<" ", "a", " ">>}

PlainTexts ==
    {EmptyText} \cup
    {[fence |-> f, chatter |-> c, body |-> [k |-> b]] :
        f \in BOOLEAN, c \in BOOLEAN, b \in {"prose", "array", "badobj"}}

GenAnswers(dicts) ==
    {GenRaise} \cup {GenText(t) : t \in PlainTexts} \cup
    {GenText(ObjectText(f, c, d)) : f \in BOOLEAN, c \in BOOLEAN, d \in dicts}

SwotDict(s, w, o, h) ==
    [strengths |-> s, weaknesses |-> w, opportunities |-> o, threats |-> h]

SwotDicts ==
    {SwotDict(List(<<Text("a")>>), List(<<Text("b")>>), List(<<Text("c")>>), List(<<Text("d")>>)),
     SwotDict(Absent, Absent, Absent, Absent),
     SwotDict(List(<<Text("a")>>), Null, Absent, Absent)}

KwList(l) == [t |-> "kwlist", l |-> l]

PipelineKeywordLists == {<<>>, <<Blank>>, <<Blank, Keyword>>}

MarketDict(a, k) == [audience_profile |-> a, potential_keywords |-> k]

MarketDicts ==
    {MarketDict(Text("profile"), KwList(l)) : l \in PipelineKeywordLists} \cup
    {MarketDict(Absent, Absent), MarketDict(Text("profile"), Null)}

FinalDict(e, o, r) ==
    [executive_summary |-> e, overall_score |-> o, recommended_next_steps |-> r]

GoodSteps == List(<<Text("s1"), Text("s2"), Text("s3")>>)

ScoreValues ==
    {Absent, Null, NaN, Num(5), Num(10), Num(75), Num(100), Num(105),
     Text("7.5"), Text("11"), Text("high"), Bool(TRUE), Bool(FALSE)}

StepsValues == {Absent, GoodSteps, List(<<>>), Text("s1"), Null, List(<<Num(10)>>)}

FinalDicts ==
    {FinalDict(Text("sum"), o, GoodSteps) : o \in ScoreValues} \cup
    {FinalDict(Text("sum"), Num(75), r) : r \in StepsValues} \cup
    {FinalDict(e, Num(75), GoodSteps) : e \in {Absent, Null}} \cup
    {FinalDict(Absent, Absent, Absent), FinalDict(Text("sum"), Num(105), Text("s1"))}

Item(title_, link, snippet) ==
    [t |-> "dict", title |-> title_, link |-> link, snippet |-> snippet]

RawSnippet == Text(<<" ", "a", " ", " ", "b">>)

FullItem == Item(Text("T"), Text("http://t"), RawSnippet)

Items ==
    {FullItem, Text("item"),
     Item(Absent, Text("http://t"), RawSnippet), Item(Null, Text("http://t"), RawSnippet),
     Item(Text("T"), Absent, RawSnippet), Item(Text("T"), Null, RawSnippet),
     Item(Text("T"), Text("http://t"), Absent), Item(Text("T"), Text("http://t"), Null)}

SearchData(items) == [t |-> "dict", items |-> items]

FailedResponses ==
    {[k |-> "transport"], [k |-> "http"], [k |-> "undecodable"],
     [k |-> "json", data |-> List(<<>>)],
     [k |-> "json", data |-> SearchData(Null)]}

JsonResponse(items) == [k |-> "json", data |-> SearchData(items)]

SearchResponses ==
    FailedResponses \cup {JsonResponse(Absent)} \cup
    {JsonResponse(List(l)) : l \in SeqsUpTo(Items, MaxItems)}

PipelineSearchResponses ==
    {[k |-> "transport"], [k |-> "http"], [k |-> "undecodable"], JsonResponse(Absent),
     JsonResponse(List(<<FullItem>>)),
     JsonResponse(List(<<Item(Text("T"), Null, RawSnippet)>>)),
     JsonResponse(List(<<FullItem, Item(Null, Text("http://t"), RawSnippet)>>))}

KeywordLists == SeqsUpTo({Blank, Keyword}, MaxKeywords) \cup {<< <<>> >>}

CredValues == {CredUnset, "", "secret"}

NotAsked == [k |-> "not asked"]
NoOutcome == [k |-> "none"]

(***************************************************************************)
(* Steps                                                                   *)
(***************************************************************************)
\* the state of a process that serves no request
Blanked ==
    /\ title = <<>> /\ idea_title = <<>>
    /\ swot_data = NoneValue /\ market_data = NoneValue
    /\ competitor_data = <<>> /\ final_data = NoneValue
    /\ outcome = NoOutcome /\ stage_log = <<>> /\ search_arg = <<>>
    /\ requests_sent = 0 /\ search_response = NotAsked /\ gen_log = <<>>

Init ==
    /\ SEARCH_API_KEY \in {CredUnset, "secret"}
    /\ SEARCH_CX \in {CredUnset, "secret"}
    /\ current_model = 0
    /\ probe_log = <<>>
    /\ pc = "idle"
    /\ Blanked

\* a request enters run_validation_pipeline: lines 16 to 19
Normalize ==
    /\ pc \in {"idle", "returned", "raised"}
    /\ \E t \in Titles :
         /\ title' = t
         /\ idea_title' = NormalizeTitle(t)
    /\ pc' = "swot"
    /\ swot_data' = NoneValue /\ market_data' = NoneValue
    /\ competitor_data' = <<>> /\ final_data' = NoneValue
    /\ outcome' = NoOutcome /\ stage_log' = <<>> /\ search_arg' = <<>>
    /\ requests_sent' = 0 /\ search_response' = NotAsked /\ gen_log' = <<>>
    /\ probe_log' = <<>>
    /\ UNCHANGED <<SEARCH_API_KEY, SEARCH_CX, current_model>>

\* the probes a get_model call can meet: none when a model is cached
ProbesFor(cur) == IF cur = 0 THEN ProbeVectors ELSE {NoProbes}

\* an exception that leaves a stage leaves run_validation_pipeline
Propagate(exc) ==
    /\ pc' = "raised"
    /\ outcome' = [k |-> "raised", exc |-> exc]

\* Step 1: swot_data = get_swot_analysis(idea)
SwotStage ==
    /\ pc = "swot"
    /\ \E probes \in ProbesFor(current_model), gen \in GenAnswers(SwotDicts) :
         LET m == get_model(current_model, probes)
             r == get_swot_analysis(m, gen)
         IN  /\ current_model' = m.cache
             /\ probe_log' = m.log
             /\ gen_log' = Append(gen_log, GenEntry(m, probes, gen))
             /\ IF r.exc = "none"
                THEN swot_data' = r.value /\ pc' = "market" /\ outcome' = outcome
                ELSE swot_data' = swot_data /\ Propagate(r.exc)
    /\ stage_log' = Append(stage_log, "swot")
    /\ UNCHANGED <<SEARCH_API_KEY, SEARCH_CX, title, idea_title, market_data,
                   competitor_data, final_data, search_arg, requests_sent, search_response>>

\* Step 2: market_data = get_market_analysis(idea)
MarketStage ==
    /\ pc = "market"
    /\ \E probes \in ProbesFor(current_model), gen \in GenAnswers(MarketDicts) :
         LET m == get_model(current_model, probes)
             r == get_market_analysis(m, gen)
         IN  /\ current_model' = m.cache
             /\ probe_log' = m.log
             /\ gen_log' = Append(gen_log, GenEntry(m, probes, gen))
             /\ IF r.exc = "none"
                THEN market_data' = r.value /\ pc' = "search" /\ outcome' = outcome
                ELSE market_data' = market_data /\ Propagate(r.exc)
    /\ stage_log' = Append(stage_log, "market")
    /\ UNCHANGED <<SEARCH_API_KEY, SEARCH_CX, title, idea_title, swot_data,
                   competitor_data, final_data, search_arg, requests_sent, search_response>>

\* a call get_competitor_search(keywords) answered from responses
SearchCall(keywords, responses, next_pc, next_outcome) ==
    \E resp \in responses :
        LET r == get_competitor_search(keywords, MaxResultsDefault,
                                       SEARCH_API_KEY, SEARCH_CX, resp)
        IN  /\ search_arg' = keywords
            /\ requests_sent' = r.sent
            /\ search_response' = IF r.sent = 0 THEN NotAsked ELSE resp
            /\ IF r.exc = "none"
               THEN competitor_data' = r.value /\ pc' = next_pc /\ outcome' = next_outcome
               ELSE competitor_data' = competitor_data /\ Propagate(r.exc)

\* Step 3 searching for the first keyword alone
SearchStage_FirstKeywordOnly ==
    /\ pc = "search"
    /\ SearchCall(Take(market_data.potential_keywords, 1), PipelineSearchResponses,
                  "summary", outcome)
    /\ stage_log' = Append(stage_log, "search")
    /\ probe_log' = <<>>
    /\ UNCHANGED <<SEARCH_API_KEY, SEARCH_CX, current_model, title, idea_title, swot_data,
                   market_data, final_data, gen_log>>

\* Step 3: competitor_data = get_competitor_search(market_data.potential_keywords)
SearchStage ==
    /\ pc = "search"
    /\ SearchCall(market_data.potential_keywords, PipelineSearchResponses, "summary", outcome)
    /\ stage_log' = Append(stage_log, "search")
    /\ probe_log' = <<>>
    /\ UNCHANGED <<SEARCH_API_KEY, SEARCH_CX, current_model, title, idea_title, swot_data,
                   market_data, final_data, gen_log>>

\* Step 4: the final summary, lines 31 to 78
SummaryStage ==
    /\ pc = "summary"
    /\ \E probes \in ProbesFor(current_model), gen \in GenAnswers(FinalDicts) :
         LET m == get_model(current_model, probes)
             r == FinalSummary(m, gen)
         IN  /\ current_model' = m.cache
             /\ probe_log' = m.log
             /\ gen_log' = Append(gen_log, GenEntry(m, probes, gen))
             /\ IF r.exc = "none"
                THEN final_data' = r.value /\ pc' = "build" /\ outcome' = outcome
                ELSE final_data' = final_data /\ Propagate(r.exc)
    /\ stage_log' = Append(stage_log, "summary")
    /\ UNCHANGED <<SEARCH_API_KEY, SEARCH_CX, title, idea_title, swot_data, market_data,
                   competitor_data, search_arg, requests_sent, search_response>>

\* Step 5: build the report and return it, lines 81 to 95
BuildReport ==
    /\ pc = "build"
    /\ LET r == BuildReportFrom(idea_title, swot_data, market_data, competitor_data, final_data)
       IN  IF r.exc = "none"
           THEN pc' = "returned" /\ outcome' = [k |-> "returned", report |-> r.value]
           ELSE Propagate(r.exc)
    /\ probe_log' = <<>>
    /\ UNCHANGED <<SEARCH_API_KEY, SEARCH_CX, current_model, title, idea_title, swot_data,
                   market_data, competitor_data, final_data, stage_log, search_arg,
                   requests_sent, search_response, gen_log>>

\* validate_idea runs the synchronous pipeline on the server's event loop, so
\* the process serves one request at a time, each to its end
Next == Normalize \/ SwotStage \/ MarketStage \/ SearchStage \/ SummaryStage \/ BuildReport

Spec == Init /\ [][Next]_vars

(***************************************************************************)
(* get_competitor_search on its own: any keyword list, any credentials,    *)
(* any answer of the search provider                                       *)
(***************************************************************************)
InitSearch ==
    /\ SEARCH_API_KEY \in CredValues
    /\ SEARCH_CX \in CredValues
    /\ current_model = 0
    /\ probe_log = <<>>
    /\ pc = "search_call"
    /\ Blanked

\* the caller picks the keyword list; the provider answers
CompetitorSearch ==
    /\ pc = "search_call"
    /\ \E keywords \in KeywordLists :
         SearchCall(keywords, SearchResponses, "search_done", [k |-> "returned"])
    /\ UNCHANGED <<SEARCH_API_KEY, SEARCH_CX, current_model, probe_log, title, idea_title,
                   swot_data, market_data, final_data, stage_log, gen_log>>

NextSearch == CompetitorSearch

SpecSearch == InitSearch /\ [][NextSearch]_vars

(***************************************************************************)
(* get_swot_analysis and get_market_analysis on their own: called again    *)
(* and again in one process, with or without a cached model, against any   *)
(* answer of the generative service                                        *)
(***************************************************************************)
InitAnalysis ==
    /\ SEARCH_API_KEY = CredUnset
    /\ SEARCH_CX = CredUnset
    /\ current_model \in 0..Len(MODEL_CANDIDATES)
    /\ probe_log = <<>>
    /\ pc = "analysis_call"
    /\ Blanked

AnalysisIdle == pc \in {"analysis_call", "swot_done", "market_done", "raised"}

\* the call's record: the model get_model returned (0: it raised), and the
\* answer of the generation call when it came to it
AnalysisEntry(m, probes, gen) ==
    [model |-> m.model, all_raised |-> AllGenCallsRaised(m, probes, gen),
     answer |-> IF m.raised THEN NotAsked ELSE gen]

\* a caller invokes get_swot_analysis(idea)
SwotCall ==
    /\ AnalysisIdle
    /\ \E probes \in ProbesFor(current_model), gen \in GenAnswers(SwotDicts) :
         LET m == get_model(current_model, probes)
             r == get_swot_analysis(m, gen)
         IN  /\ current_model' = m.cache
             /\ probe_log' = m.log
             /\ gen_log' = <<AnalysisEntry(m, probes, gen)>>
             /\ IF r.exc = "none"
                THEN swot_data' = r.value /\ pc' = "swot_done" /\ outcome' = [k |-> "returned"]
                ELSE swot_data' = NoneValue /\ Propagate(r.exc)
    /\ market_data' = NoneValue
    /\ stage_log' = <<"swot">>
    /\ UNCHANGED <<SEARCH_API_KEY, SEARCH_CX, title, idea_title, competitor_data,
                   final_data, search_arg, requests_sent, search_response>>

\* a caller invokes get_market_analysis(idea)
MarketCall ==
    /\ AnalysisIdle
    /\ \E probes \in ProbesFor(current_model), gen \in GenAnswers(MarketDicts) :
         LET m == get_model(current_model, probes)
             r == get_market_analysis(m, gen)
         IN  /\ current_model' = m.cache
             /\ probe_log' = m.log
             /\ gen_log' = <<AnalysisEntry(m, probes, gen)>>
             /\ IF r.exc = "none"
                THEN market_data' = r.value /\ pc' = "market_done" /\ outcome' = [k |-> "returned"]
                ELSE market_data' = NoneValue /\ Propagate(r.exc)
    /\ swot_data' = NoneValue
    /\ stage_log' = <<"market">>
    /\ UNCHANGED <<SEARCH_API_KEY, SEARCH_CX, title, idea_title, competitor_data,
                   final_data, search_arg, requests_sent, search_response>>

NextAnalysis == SwotCall \/ MarketCall

SpecAnalysis == InitAnalysis /\ [][NextAnalysis]_vars

(***************************************************************************)
(* Properties of run_validation_pipeline                                   *)
(***************************************************************************)
Finished == pc \in {"returned", "raised"}

Stages == <<"swot", "market", "search", "summary">>

\* C1: run_validation_pipeline never lets a non-fatal failure out: whatever the
\* generative calls and the search call do, the only exception that may leave
\* it is get_model's initialization error; otherwise it returns a report.
C1_OnlyFatalFailuresPropagate ==
    pc = "raised" => outcome.exc = "RuntimeError"

\* C2: every report run_validation_pipeline returns has its overall_score
\* within [1.0, 10.0] (10..100 in tenths).
C2_ReturnedScoreInRange ==
    outcome.k = "returned" =>
        (outcome.report.overall_score >= 10 /\ outcome.report.overall_score <= 100)

\* a report was returned from a decoded final summary, with the score it gave
C2_Witness ==
    /\ outcome.k = "returned"
    /\ final_data # FinalFallback
    /\ final_data.overall_score = Num(100)
    /\ outcome.report.overall_score = 100

Clamp(n) == IF n < 10 THEN 10 ELSE IF n > 100 THEN 100 ELSE n

DecodedScoreOutOfRange ==
    /\ final_data # NoneValue
    /\ final_data.overall_score.t = "num"
    /\ (final_data.overall_score.n < 10 \/ final_data.overall_score.n > 100)

\* C3: when the final summary decodes a numeric overall_score below 1.0 or
\* above 10.0, a report is still returned and its score is the nearest bound.
C3_OutOfRangeScoreClamped ==
    (Finished /\ DecodedScoreOutOfRange) =>
        /\ outcome.k = "returned"
        /\ outcome.report.overall_score = Clamp(final_data.overall_score.n)

EveryGenCallRaised ==
    gen_log # <<>> /\ \A i \in 1..Len(gen_log) : gen_log[i].all_raised

FallbackSummaryReported ==
    /\ outcome.report.executive_summary = "Unable to generate final summary due to an error."
    /\ outcome.report.recommended_next_steps =
           <<"Verify the AI service configuration",
             "Check prompt formatting and model availability",
             "Test with a simpler idea first">>
    /\ outcome.report.overall_score = 10

\* C4: when every call to the generative service raises, a complete report is
\* returned: SWOT, MarketAnalysis and final summary hold their fallback
\* diagnostic content and overall_score is 1.0.
C4_AllGenCallsRaiseStillReports ==
    (Finished /\ EveryGenCallRaised) =>
        /\ outcome.k = "returned"
        /\ \E msg \in {GenErrorMsg, NoModelMsg} :
               outcome.report.swot_analysis =
                   [strengths |-> <<"Service temporarily unavailable">>,
                    weaknesses |-> <<msg>>, opportunities |-> <<>>, threats |-> <<>>]
        /\ \E msg \in {GenErrorMsg, NoModelMsg} :
               outcome.report.market_analysis =
                   [audience_profile |-> <<"Service error: ", msg>>,
                    potential_keywords |-> <<>>]
        /\ outcome.report.competitor_analysis = <<>>
        /\ FallbackSummaryReported

\* a cached model whose three generation calls all raised, and the report came back
C4_Witness ==
    /\ pc = "returned"
    /\ current_model # 0
    /\ Len(gen_log) = 3
    /\ EveryGenCallRaised
    /\ outcome.report.swot_analysis.weaknesses = <<GenErrorMsg>>

\* no candidate answered its probe in any of the three get_model calls
NoUsableBackend ==
    Len(gen_log) = Len(Stages) - 1 /\ \A i \in 1..Len(gen_log) : gen_log[i].model = 0

ProbedInOrder ==
    probe_log # <<>> =>
        /\ \A i \in 1..Len(probe_log) : probe_log[i].cand = i
        /\ \A i \in 1..(Len(probe_log) - 1) : ~probe_log[i].ok
        /\ IF probe_log[Len(probe_log)].ok
           THEN current_model = Len(probe_log)
           ELSE Len(probe_log) = Len(MODEL_CANDIDATES) /\ current_model = 0

\* every get_model call of this invocation that returned a model returned the cached one
ReturnsCachedModel ==
    \A i \in 1..Len(gen_log) : gen_log[i].model \in {0, current_model}

\* once a model is cached, no step changes the cache or probes
CacheIsFinal ==
    current_model # 0 => (current_model' = current_model /\ probe_log' = <<>>)

StagesAt(p) == CASE p = "swot" -> 0
                 [] p = "market" -> 1
                 [] p = "search" -> 2
                 [] p = "summary" -> 3
                 [] OTHER -> 4

\* C7: in every invocation the stages run once each in the order SWOT, market
\* analysis, competitor search, final summary, none of them twice, and the
\* competitor search receives exactly the market analysis' keyword list.
C7_StagesOnceInOrder ==
    pc # "idle" =>
        /\ stage_log = SubSeq(Stages, 1, StagesAt(pc))
        /\ (StagesAt(pc) >= 3 => search_arg = market_data.potential_keywords)

\* a finished invocation whose search was sent for a two-keyword list
C7_Witness ==
    /\ pc = "returned"
    /\ stage_log = Stages
    /\ market_data.potential_keywords = <<Blank, Keyword>>
    /\ search_arg = <<Blank, Keyword>>
    /\ requests_sent = 1

(***************************************************************************)
(* Properties of get_competitor_search, under SpecSearch                   *)
(***************************************************************************)
SearchFinished == pc \in {"search_done", "raised"}

IsBlank(k) == \A i \in 1..Len(k) : k[i] = " "

TopAllBlank(keywords) ==
    \A i \in 1..Len(keywords) : i <= 5 => IsBlank(keywords[i])

CredsUnset ==
    SEARCH_API_KEY \in {CredUnset, ""} \/ SEARCH_CX \in {CredUnset, ""}

\* C8: with an empty keyword list, unset credentials, or nothing but blank
\* keywords among the top five, get_competitor_search returns an empty list
\* and issues no network request.
C8_ShortCircuitsWithoutRequest ==
    (SearchFinished /\ (search_arg = <<>> \/ CredsUnset \/ TopAllBlank(search_arg))) =>
        /\ pc = "search_done"
        /\ competitor_data = <<>>
        /\ requests_sent = 0

\* credentials set, five blank keywords ahead of a real one: nothing is sent
C8_Witness ==
    /\ pc = "search_done"
    /\ ~CredsUnset
    /\ search_arg = <<Blank, Blank, Blank, Blank, Blank, Keyword>>
    /\ requests_sent = 0
    /\ competitor_data = <<>>

\* an item the loop cannot turn into a Competitor: no mapping, or a title or
\* snippet that is no text
MalformedItem(item) ==
    item.t # "dict" \/ item.title = Null \/ item.snippet = Null

\* the request failed: transport error, non-2xx status, undecodable body, a
\* body that is no mapping of an item list, or a malformed item
FailedSearch ==
    /\ requests_sent = 1
    /\ \/ search_response.k \in {"transport", "http", "undecodable"}
       \/ /\ search_response.k = "json"
          /\ \/ search_response.data.t # "dict"
             \/ search_response.data.items = Null
             \/ /\ search_response.data.items.t = "list"
                /\ \E i \in 1..Len(search_response.data.items.l) :
                       MalformedItem(search_response.data.items.l[i])

\* C9: get_competitor_search never raises; a transport error, non-2xx
\* response, decode failure or malformed item ends in an empty list.
C9_SearchNeverRaises ==
    /\ pc # "raised"
    /\ (pc = "search_done" /\ FailedSearch) => competitor_data = <<>>

\* a well-formed item followed by one that is no mapping: the list comes back empty
C9_Witness ==
    /\ pc = "search_done"
    /\ requests_sent = 1
    /\ search_response = JsonResponse(List(<<FullItem, Text("item")>>))
    /\ competitor_data = <<>>

ItemListAnswered ==
    /\ requests_sent = 1
    /\ search_response.k = "json"
    /\ search_response.data.t = "dict"
    /\ search_response.data.items.t = "list"
    /\ \A i \in 1..Len(search_response.data.items.l) :
           search_response.data.items.l[i].t = "dict"

\* C10: every Competitor returned has a name, url and snippet that are not
\* null; a title, link or snippet that is absent or null becomes its
\* placeholder, and every item of the response is still returned.
C10_NoNullFieldsAllItemsKept ==
    pc = "search_done" =>
        /\ \A i \in 1..Len(competitor_data) :
               /\ competitor_data[i].name # Null
               /\ competitor_data[i].url # Null
               /\ competitor_data[i].snippet # Null
        /\ ItemListAnswered =>
               Len(competitor_data) = Len(search_response.data.items.l)

(***************************************************************************)
(* The report's idea_name                                                  *)
(***************************************************************************)
\* C11: the report's idea_name is the idea title with the surrounding
\* whitespace trimmed, or "Untitled Idea" whenever the trimmed title is empty
\* (a title of whitespace only included); it is never the empty string.
C11_IdeaNameTrimmedOrPlaceholder ==
    outcome.k = "returned" =>
        /\ outcome.report.idea_name =
               (IF Strip(title) = <<>> THEN UntitledIdea ELSE Strip(title))
        /\ outcome.report.idea_name # <<>>

(***************************************************************************)
(* Properties of get_swot_analysis and get_market_analysis, under          *)
(* SpecAnalysis                                                            *)
(***************************************************************************)
EmptyMapping(d) == \A key \in DOMAIN d : d[key] = Absent

SwotCoercible(d) ==
    \A key \in {"strengths", "weaknesses", "opportunities", "threats"} :
        d[key] = Absent \/ (d[key].t = "list" /\ \A i \in 1..Len(d[key].l) : d[key].l[i].t = "str")

MarketCoercible(d) ==
    /\ (d.audience_profile = Absent \/ d.audience_profile.t = "str")
    /\ (d.potential_keywords = Absent \/ d.potential_keywords.t = "kwlist")

\* the call met a request failure (no model, or the generation call raised),
\* a text that decodes to no mapping, an empty mapping, or a mapping the
\* target record does not accept
AnalysisFailed(e, Coercible(_)) ==
    \/ e.model = 0
    \/ e.answer.k = "raise"
    \/ /\ e.answer.k = "text"
       /\ \/ e.answer.text.body.k # "obj"
          \/ EmptyMapping(e.answer.text.body.d)
          \/ ~Coercible(e.answer.text.body.d)

SwotIsFallback(v) ==
    /\ Len(v.strengths) = 1
    /\ v.strengths[1] \in {"Could not generate SWOT analysis", "Service temporarily unavailable"}
    /\ Len(v.weaknesses) = 1
    /\ v.weaknesses[1] \in {"AI response was malformed", NoModelMsg, GenErrorMsg, ValidationMsg}
    /\ v.opportunities = <<>>
    /\ v.threats = <<>>

MarketIsFallback(v) ==
    /\ \/ v.audience_profile = <<"Could not generate profile due to formatting issue">>
       \/ /\ Len(v.audience_profile) = 2
          /\ v.audience_profile[1] = "Service error: "
    /\ v.potential_keywords = <<>>

\* C12: get_swot_analysis and get_market_analysis never raise; on a request
\* failure, an undecodable response, an empty mapping or a coercion failure
\* they return their fallback: a SWOT with one diagnostic strength, one
\* diagnostic weakness and no opportunities or threats; a MarketAnalysis with
\* a diagnostic audience_profile and no keywords.
C12_AnalysesFallBackNeverRaise ==
    /\ pc # "raised"
    /\ (pc = "swot_done" /\ AnalysisFailed(gen_log[1], SwotCoercible)) =>
           SwotIsFallback(swot_data)
    /\ (pc = "market_done" /\ AnalysisFailed(gen_log[1], MarketCoercible)) =>
           MarketIsFallback(market_data)

\* a cached model answered a fenced mapping whose potential_keywords is null:
\* the coercion failed and the market fallback came back
C12_Witness ==
    /\ pc = "market_done"
    /\ gen_log[1].model # 0
    /\ gen_log[1].answer =
           GenText(ObjectText(TRUE, FALSE, MarketDict(Text("profile"), Null)))
    /\ market_data = [audience_profile |-> <<"Service error: ", ValidationMsg>>,
                       potential_keywords |-> <<>>]

====
